---- MODULE Spec2Model ----
(***************************************************************************)
(* A model of fetch_build.py: the signed multi-host fetcher, the bounded   *)
(* pagination loop, the normalizer, the cache fallback chain and the       *)
(* publishing step of safe_main, over any sequence of runs that share the  *)
(* on-disk snapshot site/data.json, starting with no snapshot (Spec); and  *)
(* normalize_products and group_by_asset applied to lists of rows and of   *)
(* items of their own (FunSpec).                                           *)
(***************************************************************************)
EXTENDS Integers, Sequences, FiniteSets, TLC

\* ------------------------------------------------------------------ bounds
\* max_pages handed to fetch_all_rows (50 in the code; the loop is the same)
MaxPages == 2
\* longest row list handed to normalize_products applied on its own
MaxRows == 2
\* longest item list handed to group_by_asset applied on its own
MaxItems == 3

\* ------------------------------------------------------------ Python values
\* None, or a key that is missing from a dict (dict.get gives None)
None == "<None>"
\* an optional number: None or a float (APRs are kept in units of 1e-4)
NoNum == [none |-> TRUE, v |-> 0]
Num(x) == [none |-> FALSE, v |-> x]

Range(s) == {s[i] : i \in 1..Len(s)}

\* the lists of at most n elements of S
SeqsUpTo(S, n) == UNION {[1..k -> S] : k \in 0..n}

\* list.count
Count(s, x) == Cardinality({i \in 1..Len(s) : s[i] = x})

RECURSIVE SeqConcat(_)
SeqConcat(ss) == IF ss = <<>> THEN <<>> ELSE Head(ss) \o SeqConcat(Tail(ss))

\* ------------------------------------------------------------ configuration
\* str.rstrip("/") on the values the environment is given here
RStripSlash(s) ==
  CASE s = "https://api.binance.com/" -> "https://api.binance.com"
    [] s = "https://site.example/" -> "https://site.example"
    [] OTHER -> s

FixedHosts ==
  << "https://api.binance.com", "https://api1.binance.com",
     "https://api2.binance.com", "https://api3.binance.com",
     "https://api4.binance.com", "https://api-gcp.binance.com" >>

\* BASES with the BINANCE_BASE secret appended after the fixed list
BasesEnvLast(env) ==
  FixedHosts \o (IF env # None /\ env # "" THEN <<RStripSlash(env)>> ELSE <<>>)

\* BASES: the BINANCE_BASE secret first when it is set, then the fixed list
BasesOf(env) ==
  (IF env # None /\ env # "" THEN <<RStripSlash(env)>> ELSE <<>>) \o FixedHosts

\* values of the environment variable BINANCE_BASE
EnvBases == {None, "https://api.binance.us", "https://api.binance.com/"}

\* ---------------------------------------------------------------- to_float
\* float(x), None when float raises (None, or text that is not a number)
to_float(x) ==
  CASE x = "0" -> Num(0)
    [] x = "0.05" -> Num(500)
    [] x = "0.12" -> Num(1200)
    [] OTHER -> NoNum

\* ---------------------------------------------------------------- raw rows
\* a row of /simple-earn/flexible/list (pass-through fields left out)
FlexRow(isDict, asset, apr) ==
  [dict |-> isDict, asset |-> asset, latestAnnualPercentageRate |-> apr]
\* a row of /simple-earn/locked/list: detail may be missing
LockRow(isDict, hasDetail, asset, apr, duration) ==
  [dict |-> isDict, hasDetail |-> hasDetail, asset |-> asset, apr |-> apr,
   duration |-> duration]

\* the rows the two lists answer with here: a good row each, a locked row with
\* no asset (dropped by the normalizer), a locked row that is not a dict
FlexRowSet == { FlexRow(TRUE, "USDT", "0.05") }
LockRowSet == { LockRow(TRUE, TRUE, "BNB", "0.12", Num(30)),
                LockRow(TRUE, TRUE, None, "0.12", Num(30)),
                LockRow(FALSE, FALSE, None, None, NoNum) }

\* ------------------------------------------------------------------- items
Item(type, asset, apr, duration) ==
  [type |-> type, asset |-> asset, apr |-> apr, duration_days |-> duration]

demo_items ==
  << Item("Flexible", "USDT", Num(450), NoNum),
     Item("Locked", "BNB", Num(1200), Num(30)),
     Item("Locked", "BTC", Num(600), Num(60)) >>

\* x["apr"] or 0.0
AprKey(it) == IF it.apr.none THEN 0 ELSE it.apr.v

\* items.sort(key=lambda x: (x["apr"] or 0.0), reverse=True): a stable sort, so
\* each item is placed after every item whose key is not smaller than its own
RECURSIVE SortByAprDesc(_)
SortByAprDesc(s) ==
  IF s = <<>> THEN <<>>
  ELSE LET rest == SortByAprDesc(SubSeq(s, 1, Len(s) - 1))
           x == s[Len(s)]
           before == {i \in 1..Len(rest) : AprKey(rest[i]) >= AprKey(x)}
           k == IF before = {} THEN 0
                ELSE CHOOSE i \in before : \A j \in before : j <= i
       IN SubSeq(rest, 1, k) \o <<x>> \o SubSeq(rest, k + 1, Len(rest))

\* a row is a dict, so r.get works
RowsAreDicts(rs) == \A i \in 1..Len(rs) : rs[i].dict

FlexItem(r) ==
  Item("Flexible", r.asset, to_float(r.latestAnnualPercentageRate), NoNum)
LockItem(r) ==
  IF r.hasDetail THEN Item("Locked", r.asset, to_float(r.apr), r.duration)
  ELSE Item("Locked", None, NoNum, NoNum)

\* a filter that tests the APR for truth, so that an APR of zero is dropped
KeepItemAprTruthy(it) ==
  it.asset # None /\ it.asset # "" /\ ~it.apr.none /\ it.apr.v # 0

\* a filter that tests the APR alone
KeepItemAprOnly(it) == ~it.apr.none

\* it.get("asset") and it.get("apr") is not None
KeepItem(it) == it.asset # None /\ it.asset # "" /\ ~it.apr.none

\* normalize_products raises when a row is not a dict
normalize_raises(flex_rows, lock_rows) ==
  ~RowsAreDicts(flex_rows) \/ ~RowsAreDicts(lock_rows)

normalize_products(flex_rows, lock_rows) ==
  LET all == [i \in 1..Len(flex_rows) |-> FlexItem(flex_rows[i])]
             \o [i \in 1..Len(lock_rows) |-> LockItem(lock_rows[i])]
      kept == SelectSeq(all, KeepItem)
  IN SortByAprDesc(kept)

\* ----------------------------------------------------------- group_by_asset
\* x.get("duration_days") or 0
DurKey(it) == IF it.duration_days.none THEN 0 ELSE it.duration_days.v

\* a sort key that ranks the lower APR first
GroupKeyAprAscending(it) ==
  << IF it.type # "Locked" THEN 1 ELSE 0, AprKey(it), DurKey(it) >>

\* (x["type"] != "Locked", -(x["apr"] or 0), x.get("duration_days") or 0)
GroupKey(it) ==
  << IF it.type # "Locked" THEN 1 ELSE 0, 0 - AprKey(it), DurKey(it) >>

\* tuple comparison a <= b
KeyLeq(a, b) ==
  \/ a = b
  \/ \E k \in 1..Len(a) : a[k] < b[k] /\ \A j \in 1..(k - 1) : a[j] = b[j]

\* g[k].sort(key=...): a stable ascending sort
RECURSIVE SortGroup(_)
SortGroup(s) ==
  IF s = <<>> THEN <<>>
  ELSE LET rest == SortGroup(SubSeq(s, 1, Len(s) - 1))
           x == s[Len(s)]
           before == {i \in 1..Len(rest) : KeyLeq(GroupKey(rest[i]), GroupKey(x))}
           k == IF before = {} THEN 0
                ELSE CHOOSE i \in before : \A j \in before : j <= i
       IN SubSeq(rest, 1, k) \o <<x>> \o SubSeq(rest, k + 1, Len(rest))

\* the dict of group_by_asset: a key for each asset some item has, its items in
\* input order, then sorted
group_by_asset(its) ==
  [a \in {its[i].asset : i \in 1..Len(its)} |->
     SortGroup(SelectSeq(its, LAMBDA it : it.asset = a))]

\* -------------------------------------------------------------- HTTP layer
\* status codes a host answers with: success, another non-error code, an error
Statuses == {200, 202, 503}

\* Response.raise_for_status raises for 4xx and 5xx only
raise_for_status_raises(status) == status >= 400 /\ status < 600

\* the JSON body of a list response: a dict with "rows" and "total", either of
\* which may be missing, or JSON that is not a dict
Body(isDict, hasRows, part, hasTotal, total) ==
  [dict |-> isDict, hasRows |-> hasRows, rows |-> part, hasTotal |-> hasTotal,
   total |-> total]
NotADict == Body(FALSE, FALSE, <<>>, FALSE, 0)

RowSetOf(p) == IF p = "/sapi/v1/simple-earn/flexible/list" THEN FlexRowSet
               ELSE LockRowSet

\* the totals a response reports: none, the row count of one page, and one
\* that no row count reaches
Totals == {0, 1, 1000}

\* the rows of one page: none or one row (the server decides how many;
\* page_size is only sent)
PartsOf(p) == {<<>>} \cup {<<r>> : r \in RowSetOf(p)}

BodiesOf(p) ==
  {NotADict, Body(TRUE, FALSE, <<>>, FALSE, 0)}
  \cup {Body(TRUE, TRUE, part, TRUE, n) : part \in PartsOf(p), n \in Totals}

\* what requests.get gives for the signed request: an exception (net), or a
\* response with a status and a body that is JSON or not
Resp(net, status, json, body) ==
  [net |-> net, status |-> status, json |-> json, body |-> body]
ResponsesOf(p) ==
  {Resp(TRUE, 0, FALSE, NotADict)}
  \cup {Resp(FALSE, s, FALSE, NotADict) : s \in Statuses}
  \cup {Resp(FALSE, s, TRUE, b) : s \in Statuses, b \in BodiesOf(p)}

\* the responses that differ in what the code does with them: the body of a
\* response whose status raises is never read
ResponsesTried(p) ==
  {r \in ResponsesOf(p) :
     (r.status # 200 /\ raise_for_status_raises(r.status)) => r.body = NotADict}

\* how the call to /api/v3/time ends: with serverTime, or with an exception of
\* requests.get, of .json() or of ["serverTime"]
TimeOutcomes == {"serverTime", "ConnectionError", "JSONDecodeError", "KeyError"}

\* a time call whose exception is not caught and ends the host's attempt
TimeSyncEscapesOnFailure(o) == o # "serverTime"

\* the inner try around the time call catches every Exception
TimeSyncEscapes(o) == FALSE

\* t: the server's time, or int(time.time() * 1000) when the time call raised
Timestamp(o) == IF o = "serverTime" THEN "serverTime" ELSE "local"

\* what the time call leaves behind: whether its exception escaped, and t
TimeCall(o) == [escaped |-> TimeSyncEscapes(o), t |-> Timestamp(o)]
TimeCalls == {TimeCall(o) : o \in TimeOutcomes}

\* the exception one host's attempt ends with, "" when r.json() is returned
HostError(resp) ==
  IF resp.net THEN "ConnectionError"
  ELSE IF resp.status # 200 /\ raise_for_status_raises(resp.status) THEN "HTTPError"
  ELSE IF ~resp.json THEN "JSONDecodeError"
  ELSE ""

\* an exception: the turn of the host loop that raised it (0: raised outside
\* the loop) and its type
NoErr == [idx |-> 0, type |-> ""]
Err(i, type) == [idx |-> i, type |-> type]

\* data.get("rows", []) or []
RowsOfBody(data) == IF data.hasRows THEN data.rows ELSE <<>>
\* data.get("total", 0)
TotalOfBody(data) == IF data.hasTotal THEN data.total ELSE 0

\* a loop that goes on when the count only equals the total
StopPagingStrict(rowsNow, total, part) == Len(rowsNow) > total \/ part = <<>>

\* if len(rows) >= total or not part: break
StopPaging(rowsNow, total, part) == Len(rowsNow) >= total \/ part = <<>>

\* ------------------------------------------------------------- cache files
\* site/data.json: missing, or text that json.load parses (val) or rejects
File(exists, parses, val) == [exists |-> exists, parses |-> parses, val |-> val]
NoFile == File(FALSE, FALSE, <<>>)
Truncated == File(TRUE, FALSE, <<>>)

\* json.dump then json.load gives the list back: None stays null, numbers and
\* strings keep their value
JsonFile(items) == File(TRUE, TRUE, items)

\* a cache write that keeps the previous snapshot and adds the new items to it
save_cache_merge(file, items, outcome) ==
  CASE outcome = "ok" -> JsonFile((IF file.parses THEN file.val ELSE <<>>) \o items)
    [] outcome = "open_fails" -> file
    [] OTHER -> Truncated

\* save_cache: mkdir or open fails (the file is untouched), json.dump fails
\* after open(..., "w") truncated the file, or the list is written
WriteOutcomes == {"ok", "open_fails", "dump_fails"}
save_cache(file, items, outcome) ==
  CASE outcome = "ok" -> JsonFile(items)
    [] outcome = "open_fails" -> file
    [] OTHER -> Truncated

\* GET SITE_BASE_URL/data.json: an exception, a status, a body
Remote(net, status, parses, val) ==
  [net |-> net, status |-> status, parses |-> parses, val |-> val]
NotAsked == Remote(TRUE, 0, FALSE, <<>>)
PublishedList == << Item("Locked", "ETH", Num(800), Num(90)) >>
RemoteStates ==
  { NotAsked, Remote(FALSE, 404, FALSE, <<>>), Remote(FALSE, 200, FALSE, <<>>),
    Remote(FALSE, 200, TRUE, <<>>), Remote(FALSE, 200, TRUE, PublishedList) }

\* a value load_cache returns: None or the parsed list
Nothing == [none |-> TRUE, v |-> <<>>]
Just(v) == [none |-> FALSE, v |-> v]
\* a test for None alone, which lets an empty list through
TruthyNotNone(x) == ~x.none

\* if cached:
Truthy(x) == ~x.none /\ x.v # <<>>

\* load_cache with the published copy asked first and the local file second
load_cache_remote_first(file, site, resp) ==
  IF site # "" /\ ~resp.net /\ resp.status = 200 /\ resp.parses
  THEN [value |-> Just(resp.val), tiers |-> <<"remote">>]
  ELSE LET asked == IF site # "" THEN <<"remote", "local">> ELSE <<"local">>
       IN IF file.exists /\ file.parses
          THEN [value |-> Just(file.val), tiers |-> asked]
          ELSE [value |-> Nothing, tiers |-> asked]

\* load_cache: the local file first; the published copy only when the local
\* file is missing or does not parse; None when neither gives a value
load_cache(file, site, resp) ==
  IF file.exists /\ file.parses
  THEN [value |-> Just(file.val), tiers |-> <<"local">>]
  ELSE IF site = ""
  THEN [value |-> Nothing, tiers |-> <<"local">>]
  ELSE IF ~resp.net /\ resp.status = 200 /\ resp.parses
  THEN [value |-> Just(resp.val), tiers |-> <<"local", "remote">>]
  ELSE [value |-> Nothing, tiers |-> <<"local", "remote">>]

NoNote == None
EmptyNote == "Sin items devueltos por la API en este ciclo."
CacheNote == "Mostrando datos en cache por un problema temporal con la API."
DemoNote == "Datos de demostracion (se reemplazaran cuando la API responda)."

\* a live branch that leaves the note unset whatever the items are
LiveNoteUnset(its) == NoNote

\* the note of the live branch: none when there are items, the empty-result
\* note otherwise
LiveNote(its) == IF its # <<>> THEN NoNote ELSE EmptyNote

\* render_site: the templates fail before index.html is written, an asset page
\* fails after it, or every page is written
RenderOutcomes == {"ok", "index_fails", "asset_fails"}
NotRendered == [called |-> FALSE, items |-> <<>>, note |-> NoNote]

\* ------------------------------------------------------------------- state
VARIABLES
  API_KEY, API_SECRET, BINANCE_BASE, SITE_BASE_URL,  \* the environment
  cacheFile,      \* site/data.json on disk
  remote,         \* the published data.json when this run's load_cache ran
  pc,             \* where the run is
  path,           \* the list being fetched
  current,        \* fetch_all_rows: page number
  rows,           \* fetch_all_rows: rows so far
  part, total,    \* fetch_all_rows: rows and total of the last page response
  pages,          \* the row lists of the pages this fetch_all_rows call got
  flex,           \* safe_main: rows of the flexible list
  hi,             \* signed_get: index of the host in BASES being tried
  t,              \* signed_get: the timestamp of the last signed request
  last_err,       \* signed_get: last_err
  tried,          \* hosts whose data endpoint this signed_get call requested
  allNon200,      \* every host of this call answered with a status other than 200
  call,           \* how the last signed_get call ended
  contacted,      \* some host of BASES was sent a request in this run
  items, note,    \* safe_main: items, note
  by_asset,       \* safe_main: by_asset
  source,         \* where items came from
  tiers,          \* fallback tiers consulted in this run, in order
  rendered,       \* the render_site call of this run
  index,          \* site/index.html as written in this run
  cacheBefore     \* site/data.json when the run started

env == <<API_KEY, API_SECRET, BINANCE_BASE, SITE_BASE_URL>>
fetchVars == <<path, current, rows, part, total, pages, flex>>
hostVars == <<hi, t, last_err, tried, allNon200, call>>
outVars == <<items, note, by_asset, source, tiers, rendered, index, remote>>
vars == <<env, cacheFile, pc, fetchVars, hostVars, contacted, outVars,
          cacheBefore>>

BASES == BasesOf(BINANCE_BASE)

\* a check that lets the call through when only one of the two is missing
CredentialsBothMissing(key, secret) == key = "" /\ secret = ""

\* if not API_KEY or not API_SECRET
CredentialsMissing(key, secret) == key = "" \/ secret = ""

\* a fetch that swallows the exception and goes on with the rows it has
InnerExceptSwallowed == "ret"

\* where an exception raised inside the inner try of safe_main goes: its
\* except Exception branch
InnerExcept == "fallback"

\* safe_main without its outer guard: the exception leaves safe_main
OuterExceptMissing == "crashed"

\* where an exception raised after the inner try goes: the outer except
OuterExcept == "fatal"

FlexPath == "/sapi/v1/simple-earn/flexible/list"
LockPath == "/sapi/v1/simple-earn/locked/list"

\* how a signed_get call ended: the exception raised, or the timestamp the
\* request of the host that returned was signed with, and whether every host
\* of BASES had answered the call with a status other than 200
\* for an exception also the list that was being fetched and the number of
\* rows fetched so far, which the exception discards
NoCall == [st |-> "", err |-> NoErr, t |-> "", non200 |-> FALSE, path |-> "",
           dropped |-> 0]
Returned(sync, non200) == [st |-> "returned", err |-> NoErr, t |-> sync,
                           non200 |-> non200, path |-> "", dropped |-> 0]
Raised(e, non200) == [st |-> "raised", err |-> e, t |-> "", non200 |-> non200,
                      path |-> path, dropped |-> Len(flex) + Len(rows)]

Init ==
  /\ API_KEY \in {"", "key"} /\ API_SECRET \in {"", "secret"}
  /\ BINANCE_BASE \in EnvBases
  /\ SITE_BASE_URL \in {"", RStripSlash("https://site.example/")}
  /\ cacheFile = NoFile /\ cacheBefore = NoFile
  /\ pc = "fetch" /\ path = FlexPath /\ current = 1
  /\ rows = <<>> /\ part = <<>> /\ total = 0 /\ pages = <<>> /\ flex = <<>>
  /\ hi = 1 /\ t = "" /\ last_err = NoErr /\ tried = <<>>
  /\ allNon200 = FALSE /\ call = NoCall /\ contacted = FALSE
  /\ items = <<>> /\ note = NoNote /\ by_asset = <<>>
  /\ source = "" /\ tiers = <<>>
  /\ rendered = NotRendered /\ index = "" /\ remote = NotAsked

\* the frame of fetch_all_rows and the rows safe_main holds, gone once an
\* exception leaves the fetch or the fetch is over
FetchLocalsDropped ==
  /\ path' = FlexPath /\ current' = 1 /\ rows' = <<>>
  /\ part' = <<>> /\ total' = 0 /\ pages' = <<>>
  /\ flex' = <<>>

\* the frame of signed_get, gone once its result has been used
HostLocalsDropped ==
  /\ hi' = 1 /\ t' = "" /\ last_err' = NoErr /\ tried' = <<>> /\ allNon200' = FALSE
  /\ call' = NoCall

\* ---------------------------------------------------------------- signed_get
\* fetch_all_rows calls signed_get for page `current`; the call starts by
\* checking the credentials and raises before any request when one is missing
SignedGetEnter ==
  /\ pc = "fetch"
  /\ tried' = <<>> /\ allNon200' = TRUE
  /\ hi' = 1 /\ t' = "" /\ last_err' = NoErr
  /\ IF CredentialsMissing(API_KEY, API_SECRET)
     THEN /\ call' = Raised(Err(0, "RuntimeError"), FALSE)
          /\ pc' = InnerExcept
          /\ FetchLocalsDropped
     ELSE /\ call' = NoCall
          /\ pc' = "hosts"
          /\ UNCHANGED fetchVars
  /\ UNCHANGED <<env, cacheFile, contacted, outVars, cacheBefore>>

\* one turn of the loop over BASES whose attempt raises: the time call, the
\* signed request, then except: last_err = e; continue
HostFails ==
  /\ pc = "hosts" /\ hi <= Len(BASES)
  /\ \E sync \in TimeCalls, resp \in ResponsesTried(path) :
       IF sync.escaped
       THEN /\ UNCHANGED <<t, tried>>
            /\ allNon200' = FALSE
            /\ last_err' = Err(hi, "RequestError")
       ELSE /\ HostError(resp) # ""
            /\ t' = sync.t
            /\ tried' = Append(tried, BASES[hi])
            /\ allNon200' = (allNon200 /\ ~resp.net /\ resp.status # 200)
            /\ last_err' = Err(hi, "RequestError")
  /\ hi' = hi + 1
  /\ contacted' = TRUE
  /\ UNCHANGED <<env, cacheFile, pc, fetchVars, call, outVars, cacheBefore>>

\* one turn of the loop whose attempt returns r.json(), and what the page loop
\* of fetch_all_rows does with it: extend rows, then stop or ask the next page
HostReturns ==
  /\ pc = "hosts" /\ hi <= Len(BASES)
  /\ \E sync \in TimeCalls, resp \in ResponsesTried(path) :
       /\ ~sync.escaped
       /\ HostError(resp) = ""
       /\ call' = Returned(sync.t,
                           hi = Len(BASES) /\ allNon200 /\ resp.status # 200)
       /\ IF ~resp.body.dict
          THEN \* data.get raises AttributeError, out of fetch_all_rows
               /\ pc' = InnerExcept
               /\ FetchLocalsDropped
          ELSE /\ part' = RowsOfBody(resp.body)
               /\ rows' = rows \o part'
               /\ total' = TotalOfBody(resp.body)
               /\ pages' = Append(pages, part')
               /\ IF StopPaging(rows', total', part') \/ current = MaxPages
                  THEN pc' = "ret" /\ current' = current
                  ELSE pc' = "fetch" /\ current' = current + 1
               /\ UNCHANGED <<path, flex>>
  /\ hi' = 1 /\ t' = "" /\ last_err' = NoErr /\ tried' = <<>>
  /\ allNon200' = FALSE
  /\ contacted' = TRUE
  /\ UNCHANGED <<env, cacheFile, outVars, cacheBefore>>

\* every host raised: raise last_err, out of fetch_all_rows to safe_main's except
HostsExhausted ==
  /\ pc = "hosts" /\ hi > Len(BASES)
  /\ call' = Raised(last_err, allNon200)
  /\ pc' = InnerExcept
  /\ FetchLocalsDropped
  /\ UNCHANGED <<env, cacheFile, hi, t, last_err, tried, allNon200,
                 contacted, outVars, cacheBefore>>

\* ------------------------------------------------------------------ safe_main
\* fetch_all_rows returns the flexible rows to flex: the locked list is next
FlexFetched ==
  /\ pc = "ret" /\ path = FlexPath
  /\ flex' = rows
  /\ path' = LockPath /\ current' = 1 /\ rows' = <<>>
  /\ part' = <<>> /\ total' = 0 /\ pages' = <<>>
  /\ HostLocalsDropped
  /\ pc' = "fetch"
  /\ UNCHANGED <<env, cacheFile, contacted, outVars, cacheBefore>>

\* fetch_all_rows returns the locked rows; items = normalize_products(flex, lock);
\* save_cache(items) when there are items, the note otherwise; an exception of
\* either goes to the except branch
Live ==
  /\ pc = "ret" /\ path = LockPath
  /\ IF normalize_raises(flex, rows)
     THEN /\ pc' = InnerExcept
          /\ UNCHANGED <<cacheFile, items, note, source>>
     ELSE LET its == normalize_products(flex, rows)
          IN IF its # <<>>
             THEN \E w \in WriteOutcomes :
                    /\ cacheFile' = save_cache(cacheFile, its, w)
                    /\ IF w = "ok"
                       THEN /\ items' = its /\ note' = LiveNote(its)
                            /\ source' = "live"
                            /\ pc' = "publish"
                       ELSE /\ pc' = InnerExcept
                            /\ UNCHANGED <<items, note, source>>
             ELSE /\ items' = its /\ note' = LiveNote(its) /\ source' = "live"
                  /\ pc' = "publish"
                  /\ UNCHANGED cacheFile
  /\ FetchLocalsDropped
  /\ HostLocalsDropped
  /\ UNCHANGED <<env, contacted, by_asset, tiers, rendered, index, remote,
                 cacheBefore>>

\* except Exception: cached = load_cache(); the cached list when it is truthy,
\* the demo items otherwise
Fallback ==
  /\ pc = "fallback"
  /\ \E resp \in RemoteStates :
       LET lc == load_cache(cacheFile, SITE_BASE_URL, resp)
       IN /\ remote' = resp
          /\ IF Truthy(lc.value)
             THEN /\ items' = lc.value.v /\ note' = CacheNote
                  /\ source' = lc.tiers[Len(lc.tiers)]
                  /\ tiers' = lc.tiers
             ELSE /\ items' = demo_items /\ note' = DemoNote
                  /\ source' = "demo"
                  /\ tiers' = Append(lc.tiers, "demo")
  /\ HostLocalsDropped
  /\ pc' = "publish"
  /\ UNCHANGED <<env, cacheFile, fetchVars, contacted, by_asset, rendered,
                 index, cacheBefore>>

\* group_by_asset, render_site, write_robots, save_cache(items): an exception
\* of any of them goes to the outer except
Publish ==
  /\ pc = "publish"
  /\ by_asset' = group_by_asset(items)
  /\ rendered' = [called |-> TRUE, items |-> items, note |-> note]
  /\ \E r \in RenderOutcomes, w \in WriteOutcomes :
       CASE r = "index_fails" ->
              /\ pc' = OuterExcept /\ UNCHANGED <<index, cacheFile>>
         [] r = "asset_fails" ->
              /\ index' = "listing"
              /\ pc' = OuterExcept /\ UNCHANGED cacheFile
         [] OTHER ->
              /\ index' = "listing"
              /\ cacheFile' = save_cache(cacheFile, items, w)
              /\ pc' = IF w = "ok" THEN "done" ELSE OuterExcept
  /\ UNCHANGED <<env, fetchVars, hostVars, contacted, items, note, source,
                 tiers, remote, cacheBefore>>

\* the outer except: the placeholder page and robots.txt
Fatal ==
  /\ pc = "fatal"
  /\ index' = "placeholder"
  /\ pc' = "done"
  /\ UNCHANGED <<env, cacheFile, fetchVars, hostVars, contacted, items, note,
                 by_asset, source, tiers, rendered, remote, cacheBefore>>

\* the next scheduled run: a new process, the same environment and disk
NextRun ==
  /\ pc = "done"
  /\ cacheBefore' = cacheFile
  /\ pc' = "fetch" /\ contacted' = FALSE
  /\ items' = <<>> /\ note' = NoNote /\ by_asset' = <<>>
  /\ source' = "" /\ tiers' = <<>>
  /\ rendered' = NotRendered /\ index' = "" /\ remote' = NotAsked
  /\ UNCHANGED <<env, cacheFile, fetchVars, hostVars>>

Next ==
  \/ SignedGetEnter \/ HostFails \/ HostReturns \/ HostsExhausted
  \/ FlexFetched \/ Live \/ Fallback \/ Publish \/ Fatal \/ NextRun

Spec == Init /\ [][Next]_vars

\* ------------------------------------------ the two functions on their own
\* rows handed to normalize_products: good rows, an APR of zero, a missing and
\* a non-numeric APR, a missing and an empty asset, a locked row with no detail
NormFlexRows ==
  { FlexRow(TRUE, "USDT", "0.05"), FlexRow(TRUE, "USDT", "0"),
    FlexRow(TRUE, "USDT", None), FlexRow(TRUE, None, "0.05"),
    FlexRow(TRUE, "", "0.05") }
NormLockRows ==
  { LockRow(TRUE, TRUE, "BNB", "0.12", Num(30)),
    LockRow(TRUE, TRUE, "BNB", "0", NoNum),
    LockRow(TRUE, TRUE, "BNB", "n/a", Num(30)),
    LockRow(TRUE, TRUE, None, "0.12", Num(30)),
    LockRow(TRUE, FALSE, None, None, NoNum) }

\* items handed to group_by_asset: two assets, both types, equal and different
\* APRs, durations that differ, are zero or are missing
GroupItems ==
  { Item("Locked", "BNB", Num(1200), Num(30)),
    Item("Locked", "BNB", Num(1200), Num(60)),
    Item("Locked", "BNB", Num(1200), NoNum),
    Item("Locked", "BNB", Num(600), Num(30)),
    Item("Flexible", "BNB", Num(1200), NoNum),
    Item("Flexible", "BNB", Num(500), NoNum),
    Item("Flexible", "USDT", Num(500), NoNum),
    Item("Locked", "USDT", Num(0), Num(0)) }

\* a call of normalize_products on two row lists, or of group_by_asset on an
\* item list, outside any run
FunInit ==
  /\ API_KEY = "key" /\ API_SECRET = "secret"
  /\ BINANCE_BASE = None /\ SITE_BASE_URL = ""
  /\ cacheFile = NoFile /\ cacheBefore = NoFile
  /\ path = FlexPath /\ current = 1
  /\ part = <<>> /\ total = 0 /\ pages = <<>>
  /\ hi = 1 /\ t = "" /\ last_err = NoErr /\ tried = <<>>
  /\ allNon200 = FALSE /\ call = NoCall /\ contacted = FALSE
  /\ note = NoNote /\ by_asset = <<>> /\ source = "" /\ tiers = <<>>
  /\ rendered = NotRendered /\ index = "" /\ remote = NotAsked
  /\ \/ /\ pc = "normalize"
        /\ flex \in SeqsUpTo(NormFlexRows, MaxRows)
        /\ rows \in SeqsUpTo(NormLockRows, MaxRows)
        /\ items = <<>>
     \/ /\ pc = "group"
        /\ flex = <<>> /\ rows = <<>>
        /\ items \in SeqsUpTo(GroupItems, MaxItems)

\* items = normalize_products(flex, lock)
NormalizeCall ==
  /\ pc = "normalize"
  /\ items' = normalize_products(flex, rows)
  /\ pc' = "normalized"
  /\ UNCHANGED <<env, cacheFile, fetchVars, hostVars, contacted, note, by_asset,
                 source, tiers, rendered, index, remote, cacheBefore>>

\* by_asset = group_by_asset(items)
GroupCall ==
  /\ pc \in {"group", "normalized"}
  /\ by_asset' = group_by_asset(items)
  /\ pc' = IF pc = "group" THEN "grouped" ELSE "normalized_grouped"
  /\ UNCHANGED <<env, cacheFile, fetchVars, hostVars, contacted, items, note,
                 source, tiers, rendered, index, remote, cacheBefore>>

FunNext == NormalizeCall \/ GroupCall

FunSpec == FunInit /\ [][FunNext]_vars

\* ------------------------------------------------------------------ claims
\* the fallback chain has run in this run and its result is not yet published
AfterFallback == pc = "publish" /\ tiers # <<>>

\* C1 (as stated): when the live fetch fails the tiers are consulted in the
\* order remote published snapshot, local snapshot, demo items: no tier is
\* consulted after one that comes later in that order.
C1_RemoteThenLocalThenDemo ==
  LET rank(x) == CASE x = "remote" -> 1 [] x = "local" -> 2 [] OTHER -> 3
  IN \A i, j \in 1..Len(tiers) : i < j => rank(tiers[i]) < rank(tiers[j])

\* C1 (amended): when the live fetch fails the tiers are consulted in the order
\* local snapshot, remote published snapshot, demo items; the local snapshot
\* is always consulted first, and the remote one only when SITE_BASE_URL is
\* configured and the local file is missing or does not parse.
C1_LocalThenRemoteThenDemo ==
  LET rank(x) == CASE x = "local" -> 1 [] x = "remote" -> 2 [] OTHER -> 3
  IN /\ \A i, j \in 1..Len(tiers) : i < j => rank(tiers[i]) < rank(tiers[j])
     /\ (pc = "publish" /\ source # "live") => tiers # <<>>
     /\ tiers # <<>> => tiers[1] = "local"
     /\ AfterFallback =>
          ("remote" \in Range(tiers)
             <=> (SITE_BASE_URL # "" /\ ~(cacheFile.exists /\ cacheFile.parses)))

\* C1 witness: the local file, then the published copy, then the demo items
C1_AllThreeTiersConsulted == tiers = <<"local", "remote", "demo">>

\* the snapshot a tier holds parses to a list that is not empty
LocalGood == cacheFile.exists /\ cacheFile.parses /\ cacheFile.val # <<>>
RemoteGood ==
  /\ SITE_BASE_URL # "" /\ ~remote.net /\ remote.status = 200
  /\ remote.parses /\ remote.val # <<>>

\* C2: when the live fetch fails, the items rendered are those of the first
\* tier, in the order tried (local, then remote), whose snapshot parses to a
\* list that is not empty; a tier that is missing, fails, does not parse or is
\* empty is passed over, so the demo items are used only when no tier has one.
C2_FirstNonEmptyTierIsUsed ==
  AfterFallback =>
    IF LocalGood THEN source = "local" /\ items = cacheFile.val
    ELSE IF RemoteGood THEN source = "remote" /\ items = remote.val
    ELSE source = "demo" /\ items = demo_items

\* C3: when the live fetch succeeds with no items, the run attaches the note
\* and site/data.json is after the run what it was before it.
C3_EmptyResultLeavesCache ==
  (pc = "done" /\ source = "live" /\ items = <<>>)
    => (note = EmptyNote /\ cacheFile = cacheBefore)

\* how far a run is from its end, as a tuple that every step of the run makes
\* smaller in the lexicographic order: the stage of safe_main, the list being
\* fetched, the pages left, the place in the page loop, the hosts left
Measure ==
  << CASE pc \in {"fetch", "hosts", "ret"} -> 4 [] pc = "fallback" -> 3
       [] pc = "publish" -> 2 [] pc = "fatal" -> 1 [] OTHER -> 0,
     IF path = FlexPath THEN 1 ELSE 0,
     MaxPages - current,
     CASE pc = "fetch" -> 2 [] pc = "hosts" -> 1 [] OTHER -> 0,
     Len(BASES) + 1 - hi >>

LexLess(a, b) ==
  \E k \in 1..Len(a) : a[k] < b[k] /\ \A j \in 1..(k - 1) : a[j] = b[j]

\* no exception has left safe_main, the measure is bounded below, and a run
\* that is over has written index.html
C4_Inv ==
  /\ pc \in {"fetch", "hosts", "ret", "fallback", "publish", "fatal", "done"}
  /\ \A k \in 1..Len(Measure) : Measure[k] >= 0
  /\ pc = "done" => index \in {"listing", "placeholder"}

C5_NeverRendersEmpty == rendered.called => rendered.items # <<>>

\* C5 (amended): a run ends with the listing page or with the placeholder page;
\* the listing is rendered from an empty item list exactly when the live fetch
\* succeeded with no items, and then with the empty-result note; cached and demo
\* items rendered are never empty.
C5_EmptyOnlyFromEmptyLiveResult ==
  /\ pc = "done" => index \in {"listing", "placeholder"}
  /\ rendered.called =>
       /\ rendered.items = <<>> => (source = "live" /\ rendered.note = EmptyNote)
       /\ source \in {"local", "remote", "demo"} => rendered.items # <<>>
       /\ (source = "live" /\ rendered.note = EmptyNote) => rendered.items = <<>>

\* C5 witness: the listing page rendered from an empty live result
C5_EmptyListingPublished ==
  pc = "done" /\ index = "listing" /\ rendered.called /\ rendered.items = <<>>

\* C6: fetch_all_rows asks pages 1, 2, ... in turn; it asks a page only when
\* the page before did not meet the stop condition (rows so far >= its total, or
\* no rows in it); it returns only when the last page met it or max_pages pages
\* were asked; it never asks more than max_pages pages; rows is the
\* concatenation of the pages' rows in page order.
C6_Pagination ==
  pc \in {"fetch", "hosts", "ret"} =>
    /\ current \in 1..MaxPages
    /\ rows = SeqConcat(pages)
    /\ pc \in {"fetch", "hosts"} =>
         /\ Len(pages) = current - 1
         /\ current > 1 => ~(Len(rows) >= total \/ part = <<>>)
    /\ pc = "ret" =>
         /\ Len(pages) = current
         /\ (Len(rows) >= total \/ part = <<>>) \/ current = MaxPages

\* C6 witness: the call returns after its second page, whose total was reached
C6_StoppedOnSecondPage ==
  /\ pc = "ret" /\ current = 2 /\ Len(pages) = 2 /\ part # <<>>
  /\ Len(rows) >= total

\* C7: when every host of BASES answered the signed request with a status
\* other than 200, signed_get raised the error of the last host tried and the
\* run entered the fallback chain.
C7_AllNon200RaisesLast ==
  call.non200 =>
    (call.st = "raised" /\ call.err.idx = Len(BASES) /\ pc = "fallback")

\* C8: with the key or the secret not configured, signed_get raises before any
\* request: no host of BASES is contacted in the run, the host loop is never
\* entered, and the run goes from its first call straight to the fallback chain.
C8_NoCredentialsNoRequest ==
  (API_KEY = "" \/ API_SECRET = "") =>
    /\ ~contacted /\ tried = <<>>
    /\ pc \in {"fetch", "fallback", "publish", "fatal", "done"}
    /\ pc = "fetch" => (path = FlexPath /\ current = 1)
    /\ pc \in {"publish", "fatal", "done"} => source \in {"local", "remote", "demo"}

\* C8 witness: the call raised with only the secret missing
C8_RaisedWithoutSecret ==
  /\ API_KEY # "" /\ API_SECRET = "" /\ pc = "fallback"
  /\ call.st = "raised" /\ call.err.type = "RuntimeError"

\* the hosts in priority order: BINANCE_BASE first when set, then the fixed list
PriorityOrder ==
  IF BINANCE_BASE \in {None, ""} THEN FixedHosts
  ELSE <<RStripSlash(BINANCE_BASE)>> \o FixedHosts

\* C9 (as stated): in one signed_get call the hosts are tried in priority order
\* and no host's data endpoint is requested twice.
C9_NoHostTwice ==
  /\ tried = SubSeq(PriorityOrder, 1, Len(tried))
  /\ \A i, j \in 1..Len(tried) : i # j => tried[i] # tried[j]

\* C9 (amended): in one signed_get call the entries of BASES (BINANCE_BASE first
\* when set, then the fixed list in its order) are tried in order, each entry at
\* most once; a host is requested twice only when BINANCE_BASE names a host of
\* the fixed list, which BASES then holds twice; the call ends at the first
\* entry that returns, and no later entry is contacted.
C9_EntriesInOrderOnce ==
  /\ Len(tried) <= Len(PriorityOrder)
  /\ tried = SubSeq(PriorityOrder, 1, Len(tried))
  /\ pc = "hosts" => (Len(tried) = hi - 1 /\ call.st = "")
  /\ call.st = "returned" => pc # "hosts"
  /\ (\E i, j \in 1..Len(tried) : i # j /\ tried[i] = tried[j])
       => (BINANCE_BASE # None /\ RStripSlash(BINANCE_BASE) \in Range(FixedHosts))

\* C9 witness: a call whose first two requests went to the same host
C9_SameHostTwice ==
  pc = "hosts" /\ Len(tried) >= 2 /\ tried[1] = tried[2]

\* C10: the note handed to render_site follows the source of the items: none
\* exactly when they are the items of this run's live fetch, the cache banner
\* for a snapshot, the demo banner for the demo items, the empty-result banner
\* when the live fetch gave no items.
C10_NoteFollowsSource ==
  rendered.called =>
    /\ rendered.note = NoNote <=> (tiers = <<>> /\ rendered.items # <<>>)
    /\ (tiers # <<>> /\ tiers[Len(tiers)] \in {"local", "remote"})
         => rendered.note = CacheNote
    /\ (tiers # <<>> /\ tiers[Len(tiers)] = "demo")
         => (rendered.note = DemoNote /\ rendered.items = demo_items)
    /\ (tiers = <<>> /\ rendered.items = <<>>) => rendered.note = EmptyNote

\* C10 witness: a snapshot of the published site rendered with the cache banner
C10_RemoteSnapshotWithBanner ==
  /\ rendered.called /\ rendered.note = CacheNote
  /\ tiers = <<"local", "remote">> /\ rendered.items = PublishedList

\* the run is over and publishing completed: the listing was rendered and the
\* cache write that follows it succeeded
PublishCompleted == pc = "done" /\ index = "listing"

\* C11: after a run whose live fetch gave items, or whose fallback chain
\* supplied them, and whose publishing completed, site/data.json holds exactly
\* the item list rendered in that run: a full overwrite, with nothing of the
\* previous snapshot merged in or kept.
C11_SnapshotIsRenderedSet ==
  (PublishCompleted /\ (source \in {"local", "remote", "demo"}
                          \/ (source = "live" /\ items # <<>>))) =>
    /\ rendered.called /\ rendered.items = items
    /\ cacheFile = JsonFile(rendered.items)

\* C11 witness: a completed run over a snapshot that held other items (the demo
\* items of an earlier run), now replaced by this run's live items
C11_OldSnapshotReplaced ==
  /\ PublishCompleted /\ source = "live" /\ rendered.items # <<>>
  /\ cacheBefore = JsonFile(demo_items)
  /\ cacheFile = JsonFile(rendered.items) /\ cacheFile # cacheBefore

\* C12: over any sequence of runs the snapshot holds only the items of a
\* successful live fetch: a run whose fetch failed leaves a readable snapshot
\* as it was, the demo items are never stored in it, and they are never
\* rendered as cached data with the cache banner.
C12_SnapshotOnlyFromLiveFetch ==
  /\ (cacheFile.exists /\ cacheFile.parses) => cacheFile.val # demo_items
  /\ (pc = "done" /\ source = "demo" /\ cacheFile.parses)
       => cacheFile = cacheBefore
  /\ (rendered.called /\ rendered.note = CacheNote)
       => rendered.items # demo_items

\* the rows the claim counts: the asset is there and the APR converts
FlexRowCounts(r) ==
  r.asset \notin {None, ""} /\ ~to_float(r.latestAnnualPercentageRate).none
LockRowCounts(r) ==
  r.hasDetail /\ r.asset \notin {None, ""} /\ ~to_float(r.apr).none

\* the items of the rows that count, in row order
ItemsOfCountedRows ==
  [i \in 1..Len(SelectSeq(flex, FlexRowCounts)) |->
     FlexItem(SelectSeq(flex, FlexRowCounts)[i])]
  \o [i \in 1..Len(SelectSeq(rows, LockRowCounts)) |->
        LockItem(SelectSeq(rows, LockRowCounts)[i])]

\* C13: normalize_products returns exactly one item for each row, flexible or
\* locked, whose asset is there and whose APR converts to a number, and none
\* for any other row; a row whose APR is zero counts.
C13_OneItemPerGoodRow ==
  pc = "normalized" =>
    /\ Len(items) = Len(ItemsOfCountedRows)
    /\ \A x \in Range(items) \cup Range(ItemsOfCountedRows) :
         Count(items, x) = Count(ItemsOfCountedRows, x)
    /\ \A i \in 1..Len(items) : items[i].asset # None /\ ~items[i].apr.none

\* C13 witness: a flexible row with an APR of zero is kept while a locked row
\* with a non-numeric APR is dropped
C13_ZeroKeptBadDropped ==
  /\ pc = "normalized"
  /\ flex = << FlexRow(TRUE, "USDT", "0") >>
  /\ rows = << LockRow(TRUE, TRUE, "BNB", "n/a", Num(30)) >>
  /\ items = << Item("Flexible", "USDT", Num(0), NoNum) >>

\* C14: the item list handed to render_site is sorted by descending APR,
\* apr[i] >= apr[i+1] for every adjacent pair, whether it is the normalizer's
\* output, a cache snapshot or the demo items.
C14_RenderedSortedByApr ==
  rendered.called =>
    \A i \in 1..(Len(rendered.items) - 1) :
      AprKey(rendered.items[i]) >= AprKey(rendered.items[i + 1])

\* the order the claim gives to two items of one group, the first before the
\* second
InGroupOrder(a, b) ==
  /\ ~(a.type = "Flexible" /\ b.type = "Locked")
  /\ a.type = b.type => AprKey(a) >= AprKey(b)
  /\ (a.type = b.type /\ AprKey(a) = AprKey(b)) => DurKey(a) <= DurKey(b)

\* C15: group_by_asset partitions the items by asset: there is a group for each
\* asset of an item and no other, no group is empty, every item appears exactly
\* once, in the group of its asset; in every group the Locked items come before
\* the Flexible ones, items of one type are in descending APR, and items of one
\* type and APR in ascending duration, a missing duration counting as 0.
C15_GroupsPartitionAndOrder ==
  pc = "grouped" =>
    /\ DOMAIN by_asset = {items[i].asset : i \in 1..Len(items)}
    /\ \A a \in DOMAIN by_asset :
         /\ by_asset[a] # <<>>
         /\ \A x \in Range(by_asset[a]) :
              x.asset = a /\ Count(by_asset[a], x) = Count(items, x)
         /\ \A i, j \in 1..Len(by_asset[a]) :
              i < j => InGroupOrder(by_asset[a][i], by_asset[a][j])
    /\ \A x \in Range(items) :
         Count(by_asset[x.asset], x) = Count(items, x)

\* C15 witness: a group of three that the sort reordered: a Flexible item given
\* first ends last, and of two Locked items of one APR the one with no duration
\* comes before the one of 30 days
C15_GroupReordered ==
  /\ pc = "grouped"
  /\ items = << Item("Flexible", "BNB", Num(1200), NoNum),
                Item("Locked", "BNB", Num(1200), Num(30)),
                Item("Locked", "BNB", Num(1200), NoNum) >>
  /\ by_asset["BNB"] = << Item("Locked", "BNB", Num(1200), NoNum),
                          Item("Locked", "BNB", Num(1200), Num(30)),
                          Item("Flexible", "BNB", Num(1200), NoNum) >>

\* every item of the list has an asset and an APR
NoNullAssetOrApr(its) ==
  \A i \in 1..Len(its) : its[i].asset # None /\ ~its[i].apr.none

\* C16: over any sequence of runs that starts with no snapshot, with the
\* published copy being a snapshot this program wrote, every item that reaches
\* group_by_asset or render_site and every item stored in site/data.json has
\* an asset and an APR, whether it is live, cached or a demo item.
C16_NoNullReachesDownstream ==
  /\ pc \in {"publish", "fatal", "done"} => NoNullAssetOrApr(items)
  /\ rendered.called => NoNullAssetOrApr(rendered.items)
  /\ \A a \in DOMAIN by_asset : a # None /\ NoNullAssetOrApr(by_asset[a])
  /\ cacheFile.parses => NoNullAssetOrApr(cacheFile.val)
  /\ (~remote.net /\ remote.parses) => NoNullAssetOrApr(remote.val)

\* C16 witness: a later run renders, from the local snapshot, the items an
\* earlier run's live fetch left there
C16_LiveItemsServedFromCache ==
  /\ rendered.called /\ source = "local"
  /\ rendered.items = cacheBefore.val
  /\ Item("Locked", "BNB", Num(1200), Num(30)) \in Range(rendered.items)

\* between two turns of the host loop every host whose turn is over was sent
\* the signed request, whatever its time call did; and at a host whose turn is
\* next, the turn can end either way with either timestamp: the time call does
\* not decide it
C17_Inv ==
  /\ pc = "hosts" =>
       /\ Len(tried) = hi - 1
       /\ hi > 1 => (t \in {"serverTime", "local"} /\ tried[hi - 1] = BASES[hi - 1])
  /\ (pc = "hosts" /\ hi <= Len(BASES)) =>
       \A ts \in {"serverTime", "local"} :
         /\ ENABLED (HostFails /\ t' = ts)
         /\ ENABLED (HostReturns /\ call'.t = ts)
  /\ call.st = "returned" => call.t \in {"serverTime", "local"}

\* one host's turn: whatever the time call did, the signed request went to
\* that host, and the turn ended with the next host or with the return
C17_Turn ==
  (pc = "hosts" /\ hi <= Len(BASES)) =>
    \/ /\ pc' = "hosts" /\ hi' = hi + 1
       /\ tried' = Append(tried, BASES[hi])
       /\ t' \in {"serverTime", "local"}
    \/ call'.st = "returned" /\ call'.t \in {"serverTime", "local"}

\* C17: a failure of the time call to a host is never fatal and never makes
\* the host be skipped: the signed request is still sent to that host, with
\* the local clock as timestamp, and the host's turn ends as the signed request
\* ends.
C17_TimeSyncNeverFatal ==
  /\ []C17_Inv
  /\ [][C17_Turn]_vars

\* C17 witness: a call that returned the response to a request signed with the
\* local clock, the time call of that host having failed
C17_ReturnedWithLocalClock ==
  /\ call.st = "returned" /\ call.t = "local" /\ pc = "ret"

\* what a run that failed its fetch has: items of one fallback tier alone, and
\* a snapshot that is the old one, a truncated one or those items
C18_Inv ==
  /\ call.st = "raised" => pc = "fallback"
  /\ source = "live" => tiers = <<>>
  /\ pc = "fallback" => (cacheFile \in {cacheBefore, Truncated} /\ items = <<>>)
  /\ (pc \in {"publish", "fatal", "done"} /\ tiers # <<>>) =>
       /\ source = "local" => items = cacheBefore.val
       /\ source = "remote" => items = remote.val
       /\ source = "demo" => items = demo_items
       /\ source \in {"local", "remote", "demo"}
       /\ cacheFile \in {cacheBefore, Truncated, JsonFile(items)}

\* a page request that failed on every host ends the fetch: the rows so far
\* are gone, the snapshot is untouched, the fallback chain is next, and the run
\* never goes back to fetching
C18_Step ==
  /\ (pc = "hosts" /\ call'.st = "raised") =>
       /\ pc' = "fallback" /\ rows' = <<>> /\ flex' = <<>>
       /\ path' = FlexPath /\ cacheFile' = cacheFile
       /\ call'.path = path /\ call'.dropped = Len(flex) + Len(rows)
  /\ pc = "fallback" => pc' = "publish"
  /\ pc \in {"publish", "fatal"} => pc' \in {"fatal", "done"}

\* C18: the live fetch is all or nothing: when a page request of either list
\* fails on all hosts, the rows fetched so far are discarded, the locked list
\* is not fetched after the flexible list failed, the snapshot is not written
\* from partial data, and the items rendered are those of one fallback tier:
\* live rows are never mixed with cached or demo items.
C18_AllOrNothing ==
  /\ []C18_Inv
  /\ [][C18_Step]_vars

\* C18 witness: the second page of the locked list failed on every host after
\* the flexible list and a first locked page had given a row each
C18_PartialRowsDiscarded ==
  /\ pc = "fallback" /\ call.st = "raised" /\ call.err.idx = Len(BASES)
  /\ call.path = LockPath /\ call.dropped >= 2
====
